---- MODULE Spec2Model ----
(***************************************************************************)
(* Dependency-graph builder (dfs_build_graph, stage4 and stage5) and the   *)
(* cycle-aware topological sort (topological_sort) of konfUpr2.            *)
(*                                                                         *)
(* Package names are character sequences, so that the substring filter is  *)
(* computed on them.  A Python dict is a sequence of <<key, value>> pairs  *)
(* with distinct keys, in insertion order.                                 *)
(***************************************************************************)
EXTENDS Integers, Sequences, FiniteSets, TLC

VARIABLES
    graph,      \* dict name -> list of names (insertion ordered)
    color,      \* topological_sort: colour of every key
    seen,       \* history: keys coloured GRAY since the driver loop's last turn
    result,     \* topological_sort: post-order list
    in_cycle,   \* topological_sort: tainted names
    tstack,     \* topological_sort: active dfs(node) calls, innermost last
    ret,        \* "True"/"False" returned by the dfs call that just ended, or "none"
    k,          \* driver loop 'for node in graph': index of the next key
    phase,      \* position of the run
    order,      \* list returned by topological_sort
    raised,     \* an exception left topological_sort
    run,        \* number of the topological_sort call on this graph
    order1,     \* list returned by the first call
    graph0,     \* the graph as it was handed to the first call
    stage,      \* 5: main5.dfs_build_graph (memoized), 4: main4.dfs_build_graph
    root,       \* config["package"]
    max_depth,  \* config["max_depth"]
    filter_substring,   \* config["filter"]
    repo,       \* what the dependency source answers, as far as it was asked
    fetches,    \* number of get_deps_func calls per name
    processed,  \* stage5: the set 'processed'
    bstack,     \* active dfs_build_graph calls, innermost last
    cut,        \* some dfs_build_graph call was made with depth > max_depth
    brun,       \* number of the build on this source
    graph1,     \* dict built by the first build
    repo1,      \* what the source answered in the first build
    variant     \* how the source of the second build differs from the first

sortVars == <<color, result, in_cycle, tstack, ret, k, order, raised, run,
              order1, seen>>

inputVars == <<stage, root, max_depth, filter_substring>>

buildVars == <<repo, fetches, processed, bstack, cut>>

pairVars == <<brun, graph1, repo1, variant>>

vars == <<graph, phase, graph0, sortVars, inputVars, buildVars, pairVars>>

(* ---------------------------- bounds ----------------------------------- *)
MaxEdges == 3        \* entries in all dependency lists of a graph given to the sort
MaxRepoEdges == 4    \* entries in all dependency lists the source reports
MaxDepth == 2        \* largest --max-depth

(* ---------------------------- names ------------------------------------ *)
A == <<"A">>
B == <<"B">>
C == <<"C">>
D == <<"D">>
Names == {A, B, C, D}
SortNames == {A, B, C}

(* ---------------------------- sequences -------------------------------- *)
Range(s) == {s[i] : i \in 1..Len(s)}

Front(s) == SubSeq(s, 1, Len(s) - 1)

NoDup(s) == \A i, j \in 1..Len(s) : s[i] = s[j] => i = j

ListsUpTo(S, n) == UNION {[1..m -> S] : m \in 0..n}

(* ---------------------------- dict ------------------------------------- *)
KeySeq(g) == [i \in 1..Len(g) |-> g[i][1]]

Keys(g) == {g[i][1] : i \in 1..Len(g)}

\* graph[node] for a key
Lookup(g, node) == g[CHOOSE i \in 1..Len(g) : g[i][1] = node][2]

\* graph.get(node, [])
Get(g, node) == IF node \in Keys(g) THEN Lookup(g, node) ELSE <<>>

\* graph[node] = deps : in place for a key, appended for a new name
Put(g, node, deps) ==
    IF node \in Keys(g)
    THEN [i \in 1..Len(g) |-> IF g[i][1] = node THEN <<node, deps>> ELSE g[i]]
    ELSE Append(g, <<node, deps>>)

Edges(g) == UNION {{<<g[i][1], d>> : d \in Range(g[i][2])} : i \in 1..Len(g)}

(* ---------------------------- dependency source ------------------------ *)
\* The source is a fixed mapping from names to an answer (a list, or an
\* exception); the model fixes the answer for a name when get_deps_func is
\* first called for it and repeats it on every later call.
RECURSIVE SumLen(_, _)
SumLen(r, S) ==
    IF S = {} THEN 0
    ELSE LET n == CHOOSE x \in S : TRUE
         IN Len(r[n].deps) + SumLen(r, S \ {n})

Unasked == [known |-> FALSE, ok |-> TRUE, deps |-> <<>>]

\* the lists a repository with b entries left can report for a name; where
\* the orders of one set of dependencies are compared, and where the build is
\* followed to its end, a list names each dependency once
SourceLists(b) ==
    IF variant.kind \in {"permuted", "distinct"}
    THEN {l \in ListsUpTo(Names, b) : NoDup(l)}
    ELSE ListsUpTo(Names, b)

\* get_deps_func(current, **kwargs): the answers the source can give
Answers(r, n) ==
    IF r[n].known
    THEN {[ok |-> r[n].ok, deps |-> r[n].deps]}
    ELSE {[ok |-> TRUE, deps |-> l] :
              l \in SourceLists(MaxRepoEdges - SumLen(r, Names))}
         \cup {[ok |-> FALSE, deps |-> <<>>]}

\* the orders in which a list can be reported
Perms(l) ==
    {[i \in 1..Len(l) |-> l[f[i]]] :
        f \in {g \in [1..Len(l) -> 1..Len(l)] : \A i, j \in 1..Len(l) : g[i] = g[j] => i = j}}

\* the names the second source answers for as the first did
SecondSource(n) ==
    IF variant.kind = "resolved" /\ n = variant.x
    THEN {[ok |-> TRUE, deps |-> <<>>]}
    ELSE IF ~repo1[n].ok
    THEN {[ok |-> FALSE, deps |-> <<>>]}
    ELSE IF variant.kind = "permuted"
    THEN {[ok |-> TRUE, deps |-> l] : l \in Perms(repo1[n].deps)}
    ELSE {[ok |-> TRUE, deps |-> repo1[n].deps]}

\* get_deps_func in the second build: the same repository with the lists
\* reordered, or with one failing package answering []; a name the first
\* build never asked for is answered as by any repository
Answers2(n) ==
    IF repo[n].known
    THEN {[ok |-> repo[n].ok, deps |-> repo[n].deps]}
    ELSE IF repo1[n].known
    THEN SecondSource(n)
    ELSE {[ok |-> TRUE, deps |-> l] :
              l \in SourceLists(MaxRepoEdges - SumLen(repo1, Names)
                                - SumLen(repo, {m \in Names : ~repo1[m].known}))}
         \cup {[ok |-> FALSE, deps |-> <<>>]}

SourceAnswers(n) == IF brun = 1 THEN Answers(repo, n) ELSE Answers2(n)

Reveal(r, n, ans) ==
    [r EXCEPT ![n] = [known |-> TRUE, ok |-> ans.ok, deps |-> ans.deps]]

(* ---------------------------- should_skip_package ---------------------- *)
\* 'filter_substring in pkg_name'
IsSubstring(f, name) ==
    \E i \in 1..(Len(name) - Len(f) + 1) : SubSeq(name, i, i + Len(f) - 1) = f

\* a filter that skips nothing
never_skip(pkg_name, f) == FALSE

should_skip_package(pkg_name, f) ==
    IF f = <<>> THEN FALSE ELSE IsSubstring(f, pkg_name)

\* [dep for dep in direct_deps if not should_skip_package(dep, filter_substring)]
filtered_deps(direct_deps, f) ==
    SelectSeq(direct_deps, LAMBDA dep : ~should_skip_package(dep, f))

(* ---------------------------- dfs_build_graph -------------------------- *)
BTop == bstack[Len(bstack)]

Call(current, depth, visited_path) ==
    [current |-> current, depth |-> depth, visited_path |-> visited_path,
     deps |-> <<>>, i |-> 0]

\* a depth test that lets one level too many through
BeyondDepthLate(depth, max) == depth > max + 1

\* 'if depth > max_depth: return'
BeyondDepth(depth, max) == depth > max

\* a builder without the test of the ancestors
NeverOnPath(current, visited_path) == FALSE

\* 'if current in visited_path: return'
OnPath(current, visited_path) == current \in visited_path

\* a builder without the memo test
NeverMemoized(current, done) == FALSE

\* stage5 'if current in processed: return'
Memoized(current, done) == current \in done

\* a handler that leaves an empty entry for the failed package
KeyOnFailure(g, current) == Put(g, current, <<>>)

\* stage5 'except Exception': the dict is left as it is
GraphOnFailure(g, current) == g

\* an exception that no call catches
Unwound(stack) == <<>>

\* stage5 'except Exception: ... return': only the failing call ends
AfterFailure(stack) == Front(stack)

\* stage5, lines 82-104: the guards, the call of the source, graph[current]
Build5Enter ==
    /\ phase = "building"
    /\ stage = 5
    /\ bstack # <<>>
    /\ BTop.i = 0
    /\ IF \/ BeyondDepth(BTop.depth, max_depth)
          \/ should_skip_package(BTop.current, filter_substring)
          \/ OnPath(BTop.current, BTop.visited_path)
          \/ Memoized(BTop.current, processed)
       THEN /\ bstack' = Front(bstack)
            /\ UNCHANGED <<graph, repo, fetches, processed>>
       ELSE \E ans \in SourceAnswers(BTop.current) :
            /\ repo' = Reveal(repo, BTop.current, ans)
            /\ fetches' = [fetches EXCEPT ![BTop.current] = @ + 1]
            /\ IF ~ans.ok
               THEN /\ processed' = processed \cup {BTop.current}
                    /\ graph' = GraphOnFailure(graph, BTop.current)
                    /\ bstack' = AfterFailure(bstack)
               ELSE /\ graph' = Put(graph, BTop.current,
                                    filtered_deps(ans.deps, filter_substring))
                    /\ bstack' = [bstack EXCEPT ![Len(bstack)] =
                                    [@ EXCEPT !.deps = filtered_deps(ans.deps, filter_substring),
                                              !.i = 1]]
                    /\ UNCHANGED processed
    /\ cut' = (cut \/ BTop.depth > max_depth)
    /\ UNCHANGED <<phase, graph0, sortVars, inputVars, pairVars>>

\* stage5, lines 106-109: one recursive call, or processed.add(current)
Build5Loop ==
    /\ phase = "building"
    /\ stage = 5
    /\ bstack # <<>>
    /\ BTop.i > 0
    /\ IF BTop.i <= Len(BTop.deps)
       THEN /\ bstack' = Append([bstack EXCEPT ![Len(bstack)].i = @ + 1],
                                Call(BTop.deps[BTop.i], BTop.depth + 1,
                                     BTop.visited_path \cup {BTop.current}))
            /\ UNCHANGED processed
       ELSE /\ processed' = processed \cup {BTop.current}
            /\ bstack' = Front(bstack)
    /\ UNCHANGED <<graph, phase, graph0, sortVars, inputVars, repo, fetches,
                   cut, pairVars>>

\* stage4, lines 121-144: the guards, the placeholder entry, the call of the
\* source, graph[current]
Build4Enter ==
    /\ phase = "building"
    /\ stage = 4
    /\ bstack # <<>>
    /\ BTop.i = 0
    /\ IF \/ BeyondDepth(BTop.depth, max_depth)
          \/ should_skip_package(BTop.current, filter_substring)
          \/ OnPath(BTop.current, BTop.visited_path)
       THEN /\ bstack' = Front(bstack)
            /\ UNCHANGED <<graph, repo, fetches>>
       ELSE \E ans \in SourceAnswers(BTop.current) :
            /\ repo' = Reveal(repo, BTop.current, ans)
            /\ fetches' = [fetches EXCEPT ![BTop.current] = @ + 1]
            /\ IF ~ans.ok
               THEN /\ graph' = IF BTop.current \in Keys(graph) THEN graph
                                ELSE Put(graph, BTop.current, <<>>)
                    /\ bstack' = Front(bstack)
               ELSE /\ graph' = Put(graph, BTop.current,
                                    filtered_deps(ans.deps, filter_substring))
                    /\ bstack' = [bstack EXCEPT ![Len(bstack)] =
                                    [@ EXCEPT !.deps = filtered_deps(ans.deps, filter_substring),
                                              !.i = 1]]
    /\ cut' = (cut \/ BTop.depth > max_depth)
    /\ UNCHANGED <<phase, graph0, sortVars, inputVars, processed, pairVars>>

\* a guard that recurses into new names only
RecurseNew4(g, dep, depth, max) == dep \notin Keys(g)

\* stage4 'if dep not in graph or depth + 1 <= max_depth'
Recurse4(g, dep, depth, max) == dep \notin Keys(g) \/ depth + 1 <= max

\* stage4, lines 146-158: one turn of the loop over filtered_deps
Build4Loop ==
    /\ phase = "building"
    /\ stage = 4
    /\ bstack # <<>>
    /\ BTop.i > 0
    /\ IF BTop.i <= Len(BTop.deps)
       THEN IF Recurse4(graph, BTop.deps[BTop.i], BTop.depth, max_depth)
            THEN bstack' = Append([bstack EXCEPT ![Len(bstack)].i = @ + 1],
                                  Call(BTop.deps[BTop.i], BTop.depth + 1,
                                       BTop.visited_path \cup {BTop.current}))
            ELSE bstack' = [bstack EXCEPT ![Len(bstack)].i = @ + 1]
       ELSE bstack' = Front(bstack)
    /\ UNCHANGED <<graph, phase, graph0, sortVars, inputVars, repo, fetches,
                   processed, cut, pairVars>>

\* main: dfs_build_graph has returned, the dict goes to topological_sort
MainBuilt ==
    /\ phase = "building"
    /\ bstack = <<>>
    /\ phase' = "ready"
    /\ graph0' = graph
    /\ UNCHANGED <<graph, sortVars, inputVars, buildVars, pairVars>>

(* ---------------------------- topological_sort ------------------------- *)
WHITE == 0
GRAY == 1
BLACK == 2

Top == tstack[Len(tstack)]

Return(v) == /\ tstack' = Front(tstack)
             /\ ret' = v

\* a colour map that outlives the call instead of being rebuilt by it
StaleColor(g) == IF DOMAIN color = Keys(g) THEN color ELSE [n \in Keys(g) |-> WHITE]

\* color = {node: WHITE for node in graph}
FreshColor(g) == [n \in Keys(g) |-> WHITE]

\* color = ...; result = []; in_cycle = set()
SortStart ==
    /\ phase = "ready"
    /\ color' = FreshColor(graph)
    /\ result' = <<>>
    /\ in_cycle' = {}
    /\ tstack' = <<>>
    /\ ret' = "none"
    /\ k' = 1
    /\ seen' = {}
    /\ phase' = "sorting"
    /\ UNCHANGED <<graph, order, raised, run, order1, graph0, inputVars, buildVars, pairVars>>

\* a driver that starts the traversal at the first key only
RootOnly(g, idx) == idx = 1 /\ color[KeySeq(g)[idx]] = WHITE

\* 'if color[node] == WHITE' of the driver loop
DriverVisits(g, idx) == color[KeySeq(g)[idx]] = WHITE

\* for node in graph: if color[node] == WHITE: dfs(node)
Driver ==
    /\ phase = "sorting"
    /\ tstack = <<>>
    /\ k <= Len(graph)
    /\ k' = k + 1
    /\ ret' = "none"
    /\ seen' = {}
    /\ IF DriverVisits(graph, k)
       THEN tstack' = <<[node |-> KeySeq(graph)[k], i |-> 0]>>
       ELSE tstack' = tstack
    /\ UNCHANGED <<graph, color, result, in_cycle, phase, order, raised,
                   run, order1, graph0, inputVars, buildVars, pairVars>>

\* a visited test that takes a node in progress for a finished one
EntryNoCycle(c) == IF c = WHITE THEN "visit" ELSE "done"

\* 'if color[node] == GRAY: ...' and 'if color[node] == BLACK: ...'
Entry(c) == IF c = GRAY THEN "cycle" ELSE IF c = BLACK THEN "done" ELSE "visit"

\* entry of dfs(node): the two colour tests and color[node] = GRAY
DfsEnter ==
    /\ phase = "sorting"
    /\ tstack # <<>>
    /\ Top.i = 0
    /\ IF Top.node \notin DOMAIN color
       THEN \* color[node] raises KeyError, which nothing catches
            /\ raised' = TRUE
            /\ phase' = "raised"
            /\ tstack' = <<>>
            /\ UNCHANGED <<color, in_cycle, ret, seen>>
       ELSE /\ UNCHANGED <<raised, phase>>
            /\ IF Entry(color[Top.node]) = "cycle"
               THEN /\ in_cycle' = in_cycle \cup {Top.node}
                    /\ Return("False")
                    /\ UNCHANGED <<color, seen>>
               ELSE IF Entry(color[Top.node]) = "done"
               THEN /\ Return("True")
                    /\ UNCHANGED <<color, in_cycle, seen>>
               ELSE /\ color' = [color EXCEPT ![Top.node] = GRAY]
                    /\ tstack' = [tstack EXCEPT ![Len(tstack)].i = 1]
                    /\ seen' = seen \cup {Top.node}
                    /\ UNCHANGED <<in_cycle, ret>>
    /\ UNCHANGED <<graph, result, k, order, run, order1, graph0, inputVars,
                   buildVars, pairVars>>

\* the dependency the loop of dfs(node) is at
DepAt(fr) == Get(graph, fr.node)[fr.i]

\* the loop without its membership test
NeverDangling(dep) == FALSE

\* 'if dep not in graph: continue'
IsDangling(dep) == dep \notin Keys(graph)

\* one turn of 'for dep in graph.get(node, [])', or the code after the loop
DfsLoop ==
    /\ phase = "sorting"
    /\ tstack # <<>>
    /\ Top.i > 0
    /\ ret = "none"
    /\ IF Top.i > Len(Get(graph, Top.node))
       THEN /\ color' = [color EXCEPT ![Top.node] = BLACK]
            /\ result' = Append(result, Top.node)
            /\ Return("True")
       ELSE /\ IF IsDangling(DepAt(Top))
               THEN tstack' = [tstack EXCEPT ![Len(tstack)].i = @ + 1]
               ELSE tstack' = Append(tstack, [node |-> DepAt(Top), i |-> 0])
            /\ UNCHANGED <<color, result, ret>>
    /\ UNCHANGED <<graph, in_cycle, k, phase, order, raised, run, order1, graph0, seen,
                   inputVars, buildVars, pairVars>>

\* a loop that drops the value of the recursive call
FailedIgnored(r) == FALSE

\* 'if not dfs(dep)'
Failed(r) == r = "False"

\* a failing node closed for good instead of reopened
MarkDone(col, node) == [col EXCEPT ![node] = BLACK]

\* a failing node left in progress
KeepGray(col, node) == col

\* 'color[node] = WHITE' after a failing dependency
Reset(col, node) == [col EXCEPT ![node] = WHITE]

\* 'if not dfs(dep)': the recursive call has returned ret
DfsReturn ==
    /\ phase = "sorting"
    /\ tstack # <<>>
    /\ Top.i > 0
    /\ ret # "none"
    /\ IF Failed(ret)
       THEN /\ in_cycle' = in_cycle \cup {Top.node}
            /\ color' = Reset(color, Top.node)
            /\ Return("False")
       ELSE /\ tstack' = [tstack EXCEPT ![Len(tstack)].i = @ + 1]
            /\ ret' = "none"
            /\ UNCHANGED <<color, in_cycle>>
    /\ UNCHANGED <<graph, result, k, phase, order, raised, run, order1, graph0, seen,
                   inputVars, buildVars, pairVars>>

\* [node for node in result if node not in in_cycle]
SafeOrder(res, tainted) == SelectSeq(res, LAMBDA n : n \notin tainted)

\* return of topological_sort
SortFinish ==
    /\ phase = "sorting"
    /\ tstack = <<>>
    /\ k > Len(graph)
    /\ order' = SafeOrder(result, in_cycle)
    /\ order1' = IF run = 1 THEN SafeOrder(result, in_cycle) ELSE order1
    /\ phase' = "sorted"
    /\ UNCHANGED <<graph, color, result, in_cycle, tstack, ret, k, raised, seen,
                   run, graph0, inputVars, buildVars, pairVars>>

\* a second call of topological_sort on the same dict
SortAgain ==
    /\ phase = "sorted"
    /\ run = 1
    /\ run' = 2
    /\ phase' = "ready"
    /\ UNCHANGED <<graph, color, result, in_cycle, tstack, ret, k, order, seen,
                   raised, order1, graph0, inputVars, buildVars, pairVars>>

(* ---------------------------- graphs handed to the sort ---------------- *)
RECURSIVE InjSeqs(_)
InjSeqs(S) ==
    {<<>>} \cup UNION {{<<x>> \o s : s \in InjSeqs(S \ {x})} : x \in S}

RECURSIVE DepLists(_, _, _)
\* one dependency list per key, at most 'budget' entries in all
DepLists(n, S, budget) ==
    IF n = 0 THEN {<<>>}
    ELSE UNION {{<<l>> \o rest : rest \in DepLists(n - 1, S, budget - Len(l))} :
                l \in ListsUpTo(S, budget)}

GraphsOver(S, budget) ==
    UNION {{[i \in 1..Len(ks) |-> <<ks[i], ds[i]>>] :
            ds \in DepLists(Len(ks), S, budget)} : ks \in InjSeqs(S)}

\* the locals of topological_sort before its first call
SortIdle ==
    /\ color = <<>>
    /\ result = <<>>
    /\ in_cycle = {}
    /\ tstack = <<>>
    /\ ret = "none"
    /\ k = 1
    /\ order = <<>>
    /\ raised = FALSE
    /\ run = 1
    /\ order1 = <<>>
    /\ seen = {}

\* no builder ran: the dict comes from the caller
NoBuild ==
    /\ stage = 5
    /\ root = A
    /\ max_depth = 0
    /\ filter_substring = <<>>
    /\ repo = [n \in Names |-> Unasked]
    /\ fetches = [n \in Names |-> 0]
    /\ processed = {}
    /\ bstack = <<>>
    /\ cut = FALSE

\* one build only
NoPair ==
    /\ brun = 1
    /\ graph1 = <<>>
    /\ repo1 = [n \in Names |-> Unasked]
    /\ variant = [kind |-> "same", x |-> A]

SortInit ==
    /\ graph \in GraphsOver(SortNames, MaxEdges)
    /\ graph0 = graph
    /\ phase = "ready"
    /\ SortIdle
    /\ NoBuild
    /\ NoPair

SortNext ==
    \/ SortStart
    \/ Driver
    \/ DfsEnter
    \/ DfsLoop
    \/ DfsReturn
    \/ SortFinish
    \/ SortAgain

SortSpec == SortInit /\ [][SortNext]_vars

\* the interpreter runs the call to its end: a step that can be taken is taken
SortLiveSpec == SortInit /\ [][SortNext]_vars /\ WF_vars(SortNext)

(* ---------------------------- runs of main ----------------------------- *)
Filters == {<<>>, A, B}

\* --package: the names are interchangeable, the run starts at A
Roots == {A}

\* main: graph = {}; processed = set(); dfs_build_graph(package, 0, ...)
BuildStart ==
    /\ root \in Roots
    /\ max_depth \in 0..MaxDepth
    /\ filter_substring \in Filters
    /\ graph = <<>>
    /\ graph0 = <<>>
    /\ phase = "building"
    /\ repo = [n \in Names |-> Unasked]
    /\ fetches = [n \in Names |-> 0]
    /\ processed = {}
    /\ bstack = <<Call(root, 0, {})>>
    /\ cut = FALSE
    /\ SortIdle
    /\ brun = 1
    /\ graph1 = <<>>
    /\ repo1 = [n \in Names |-> Unasked]

BuildInit ==
    /\ BuildStart
    /\ stage \in {4, 5}
    /\ variant = [kind |-> "same", x |-> root]

\* the build of either stage
BuildNext ==
    \/ Build5Enter
    \/ Build5Loop
    \/ Build4Enter
    \/ Build4Loop
    \/ MainBuilt

BuildSpec == BuildInit /\ [][BuildNext]_vars

\* a build of either stage on a source whose lists name each dependency once
BuildLiveInit ==
    /\ BuildStart
    /\ stage \in {4, 5}
    /\ variant = [kind |-> "distinct", x |-> root]

\* the interpreter runs the build on: a step that can be taken is taken
BuildLiveSpec == BuildLiveInit /\ [][BuildNext]_vars /\ WF_vars(BuildNext)

(* ---------------------------- two builds on one repository ------------- *)
\* main run again on a changed source: graph = {}; processed = set()
Rebuild(v) ==
    /\ phase = "building"
    /\ stage = 5
    /\ bstack = <<>>
    /\ brun = 1
    /\ brun' = 2
    /\ graph1' = graph
    /\ repo1' = repo
    /\ variant' = v
    /\ graph' = <<>>
    /\ repo' = [n \in Names |-> Unasked]
    /\ fetches' = [n \in Names |-> 0]
    /\ processed' = {}
    /\ bstack' = <<Call(root, 0, {})>>
    /\ UNCHANGED <<phase, graph0, sortVars, inputVars, cut>>

\* the second source answers [] for one package that failed in the first
MainAgainResolved ==
    \E n \in {m \in Names : repo[m].known /\ ~repo[m].ok} :
        Rebuild([kind |-> "resolved", x |-> n])

\* the second source reports the same names in any order
MainAgainPermuted == Rebuild(variant)

Init5 ==
    /\ BuildStart
    /\ stage = 5
    /\ variant = [kind |-> "same", x |-> root]

\* main of stage5: the build, then topological_sort
MainNext ==
    \/ Build5Enter
    \/ Build5Loop
    \/ MainBuilt
    \/ SortStart
    \/ Driver
    \/ DfsEnter
    \/ DfsLoop
    \/ DfsReturn
    \/ SortFinish

MainSpec == Init5 /\ [][MainNext]_vars

FailNext ==
    \/ Build5Enter
    \/ Build5Loop
    \/ MainAgainResolved
    \/ MainBuilt

FailSpec == Init5 /\ [][FailNext]_vars

PermNext ==
    \/ Build5Enter
    \/ Build5Loop
    \/ MainAgainPermuted
    \/ MainBuilt

PermInit ==
    /\ BuildStart
    /\ stage = 5
    /\ variant = [kind |-> "permuted", x |-> root]

PermSpec == PermInit /\ [][PermNext]_vars

(* ---------------------------- graph theory used by the properties ------ *)
\* edges between two keys
KeyEdges(g) == {e \in Edges(g) : e[2] \in Keys(g)}

RECURSIVE TransitiveClosure(_)
TransitiveClosure(R) ==
    LET R2 == R \cup {<<p[1][1], p[2][2]>> : p \in {q \in R \X R : q[1][2] = q[2][1]}}
    IN IF R2 = R THEN R ELSE TransitiveClosure(R2)

OnCycle(g, n) == <<n, n>> \in TransitiveClosure(KeyEdges(g))

ReachesCycle(g, n) ==
    \/ OnCycle(g, n)
    \/ \E m \in Keys(g) : <<n, m>> \in TransitiveClosure(KeyEdges(g)) /\ OnCycle(g, m)

(* ---------------------------- C1 --------------------------------------- *)
\* C1: in the list topological_sort returns, for every edge A -> B of the
\* graph whose two ends both occur in the list, every occurrence of B is at a
\* strictly smaller index than every occurrence of A.
C1_DependencyFirst ==
    phase = "sorted" =>
        \A e \in Edges(graph) : \A i, j \in 1..Len(order) :
            (order[i] = e[1] /\ order[j] = e[2]) => j < i

C1_Witness ==
    /\ phase = "sorted"
    /\ Len(order) = 3
    /\ \E e1, e2 \in Edges(graph) :
          /\ e1[2] = e2[1]
          /\ {e1[1], e1[2], e2[2]} = Range(order)
    /\ in_cycle = {}

(* ---------------------------- C2 --------------------------------------- *)
\* C2: the returned list holds no key that lies on a cycle and no key from
\* which a cycle is reachable through key-to-key edges, whatever the order of
\* the keys and of the dependency lists; for {A: [B], B: [C], C: [B]} it is
\* empty.
C2_NoCycleTouchingKey ==
    phase = "sorted" =>
        /\ \A n \in Range(order) : ~ReachesCycle(graph, n)
        /\ (/\ Keys(graph) = {A, B, C}
            /\ Get(graph, A) = <<B>>
            /\ Get(graph, B) = <<C>>
            /\ Get(graph, C) = <<B>>) => order = <<>>

\* a key with one dependency into a cycle and another one that is installed
C2_Witness ==
    /\ phase = "sorted"
    /\ \E n \in Keys(graph) :
          /\ ~OnCycle(graph, n)
          /\ ReachesCycle(graph, n)
          /\ n \notin Range(order)
          /\ \E d \in Range(Get(graph, n)) : d \in Range(order)

(* ---------------------------- C9 --------------------------------------- *)
\* C9: a dependency name that is not a key is skipped: no exception leaves
\* the sort, the name is never visited, tainted or returned, the returned
\* list holds keys only, and a key whose key dependencies are all returned
\* is returned too, whatever dangling names its list holds.
C9_DanglingIgnored ==
    /\ ~raised
    /\ phase \in {"sorting", "sorted"} =>
          /\ in_cycle \subseteq Keys(graph)
          /\ Range(result) \subseteq Keys(graph)
          /\ \A i \in 1..Len(tstack) : tstack[i].node \in Keys(graph)
    /\ phase = "sorted" =>
          /\ Range(order) \subseteq Keys(graph)
          /\ \A n \in Keys(graph) :
                (\A d \in Range(Get(graph, n)) :
                     d \in Keys(graph) => d \in Range(order))
                => n \in Range(order)

C9_Witness ==
    /\ phase = "sorted"
    /\ \E n \in Keys(graph) :
          /\ n \in Range(order)
          /\ \E d \in Range(Get(graph, n)) : d \notin Keys(graph)
          /\ \E d \in Range(Get(graph, n)) : d \in Keys(graph)

(* ---------------------------- C10 -------------------------------------- *)
\* C10: a second call of topological_sort on the same dict returns the list
\* the first call returned, and no step of either call changes the dict
\* (keys, key order, dependency lists).
C10_SortRepeatable ==
    /\ graph = graph0
    /\ (phase = "sorted" /\ run = 2) => order = order1

C10_Witness ==
    /\ phase = "sorted"
    /\ run = 2
    /\ order # <<>>
    /\ in_cycle # {}

(* ---------------------------- C3 --------------------------------------- *)
\* the source answers A -> [B, C], B -> [D], C -> [D], D -> []
DiamondSource ==
    /\ \A n \in Names : repo[n].known /\ repo[n].ok
    /\ repo[A].deps = <<B, C>>
    /\ repo[B].deps = <<D>>
    /\ repo[C].deps = <<D>>
    /\ repo[D].deps = <<>>

Before(s, x, y) == \E i, j \in 1..Len(s) : i < j /\ s[i] = x /\ s[j] = y

\* C3: in a run of the stage5 builder the source is called at most once for
\* each name, whatever the source, max_depth and filter; in the diamond
\* (depth bound not in the way, nothing filtered) D is fetched exactly once
\* and the install order has D before B and C and both before A.
C3_FetchOnce ==
    stage = 5 =>
        /\ \A n \in Names : fetches[n] <= 1
        /\ (/\ phase = "sorted"
            /\ root = A
            /\ max_depth >= 2
            /\ filter_substring = <<>>
            /\ DiamondSource)
           => /\ fetches[D] = 1
              /\ Before(order, D, B)
              /\ Before(order, D, C)
              /\ Before(order, B, A)
              /\ Before(order, C, A)

C3_Witness ==
    /\ stage = 5
    /\ phase = "sorted"
    /\ max_depth = 2
    /\ filter_substring = <<>>
    /\ DiamondSource
    /\ fetches = [n \in Names |-> 1]
    /\ order = <<D, B, C, A>>

(* ---------------------------- C4 --------------------------------------- *)
\* the name contains the non-empty filter
Excluded(n) == filter_substring # <<>> /\ IsSubstring(filter_substring, n)

\* C4: at every point of a build no name containing the non-empty filter is
\* a key or occurs in a dependency list, no such name is passed to the
\* source, and the dict stays empty when the root contains the filter; with
\* the empty filter every answered list is recorded whole.
C4_FilterExcludes ==
    /\ \A n \in Names : Excluded(n) =>
          /\ n \notin Keys(graph)
          /\ \A key \in Keys(graph) : n \notin Range(Get(graph, key))
          /\ fetches[n] = 0
    /\ Excluded(root) => graph = <<>>
    /\ filter_substring = <<>> =>
          \A key \in Keys(graph) : repo[key].ok => Get(graph, key) = repo[key].deps

C4_Witness ==
    /\ phase = "ready"
    /\ filter_substring = B
    /\ B \in Range(repo[A].deps)
    /\ \E n \in Keys(graph) : B \in Range(repo[n].deps) /\ n # A
    /\ Cardinality(Keys(graph)) = 3

(* ---------------------------- C5 --------------------------------------- *)
\* the names one recorded edge away from a name of S
Successors(g, S) == UNION {Range(Get(g, n)) : n \in S}

RECURSIVE WithinSteps(_, _, _)
\* the names at most n recorded edges away from a name of S
WithinSteps(g, S, n) ==
    IF n = 0 THEN S ELSE WithinSteps(g, S \cup Successors(g, S), n - 1)

\* C5: every expanding call has depth <= max_depth, every key and every
\* fetched name is at most max_depth recorded edges from the root, and a
\* key's list is recorded whole, so a dependency met only at depth
\* max_depth + 1 stays in its referrer's list without being fetched or
\* becoming a key.
C5_DepthBound ==
    LET near == WithinSteps(graph, {root}, max_depth)
    IN /\ \A i \in 1..Len(bstack) : bstack[i].i > 0 => bstack[i].depth <= max_depth
       /\ Keys(graph) \subseteq near
       /\ \A n \in Names : fetches[n] > 0 => n \in near
       /\ \A key \in Keys(graph) :
             repo[key].ok => Get(graph, key) = filtered_deps(repo[key].deps, filter_substring)

C5_Witness ==
    /\ phase = "ready"
    /\ max_depth = 2
    /\ \E key \in Keys(graph) :
          /\ key \notin WithinSteps(graph, {root}, max_depth - 1)
          /\ \E d \in Range(Get(graph, key)) :
                /\ d \notin Keys(graph)
                /\ fetches[d] = 0

(* ---------------------------- C6 --------------------------------------- *)
\* C6: every key's dependency list holds no name twice, whatever list the
\* source returned.
C6_NoDuplicateDeps ==
    \A key \in Keys(graph) : NoDup(Get(graph, key))

(* ---------------------------- C7 --------------------------------------- *)
\* del graph[x]
RemoveKey(g, x) == SelectSeq(g, LAMBDA e : e[1] # x)

\* C7: a package whose fetch raises is not a key, is in processed and was
\* fetched once, and the build goes on: the finished dict equals the dict of
\* the run in which that package answers [], with that key removed.
C7_FailureContained ==
    /\ \A n \in Names : (repo[n].known /\ ~repo[n].ok) =>
          /\ n \notin Keys(graph)
          /\ n \in processed
          /\ fetches[n] = 1
    /\ (brun = 2 /\ phase = "ready") => graph1 = RemoveKey(graph, variant.x)

\* the failing package had a later sibling, which was expanded
C7_Witness ==
    /\ brun = 2
    /\ phase = "ready"
    /\ variant.x \in Keys(graph)
    /\ variant.x \notin Keys(graph1)
    /\ \E i, j \in 1..Len(Get(graph1, root)) :
          /\ i < j
          /\ Get(graph1, root)[i] = variant.x
          /\ Get(graph1, root)[j] # variant.x
          /\ Get(graph1, root)[j] \in Keys(graph1)
          /\ Get(graph1, Get(graph1, root)[j]) # <<>>

(* ---------------------------- C8 --------------------------------------- *)
SameDepSets(g, h) ==
    \A key \in Keys(g) \cap Keys(h) : Range(Get(g, key)) = Range(Get(h, key))

\* C8 as claimed: whatever the order in which the source reports each
\* package's dependencies, the stage5 build ends with the same key set and,
\* per key, the same set of dependency names.
C8_OrderIndependent ==
    (brun = 2 /\ phase = "ready") =>
        /\ Keys(graph) = Keys(graph1)
        /\ SameDepSets(graph, graph1)

\* C8 amended: a key of both dicts has the same set of dependency names in
\* both, and the key sets are equal when no call of either build was made
\* with depth > max_depth.
C8_OrderIndependentUncut ==
    (brun = 2 /\ phase = "ready") =>
        /\ SameDepSets(graph, graph1)
        /\ ~cut => Keys(graph) = Keys(graph1)

C8_Witness ==
    /\ brun = 2
    /\ phase = "ready"
    /\ ~cut
    /\ Cardinality(Keys(graph)) = 4
    /\ KeySeq(graph) # KeySeq(graph1)

(* ---------------------------- C11 -------------------------------------- *)
\* the calls on the stack that passed the guards and are expanding
Expanding == {i \in 1..Len(bstack) : bstack[i].i > 0}

\* what holds of the call stack of dfs_build_graph at every point
C11_StackBounded ==
    /\ \A i, j \in Expanding : bstack[i].current = bstack[j].current => i = j
    /\ \A i \in Expanding :
          bstack[i].visited_path = {bstack[j].current : j \in 1..(i - 1)}
    /\ Len(bstack) <= max_depth + 2

\* C11: every build ends (the dict reaches main), whatever cycles and
\* self-dependencies the source has and whatever max_depth is; on the way no
\* package is expanding twice on the call stack, the ancestor set of an
\* expanding call is exactly the packages expanding below it, and the stack
\* never holds more than max_depth + 2 calls.
C11_Terminates == []C11_StackBounded /\ <>(phase = "ready")

\* a cycle closes at the deepest call the bound allows
C11_Witness ==
    /\ phase = "building"
    /\ max_depth >= 1
    /\ Len(bstack) = max_depth + 2
    /\ BTop.i = 0
    /\ BTop.current \in BTop.visited_path

(* ---------------------------- C12 -------------------------------------- *)
\* the stage4 loop is at a dependency that lies within the depth bound
AtDepWithinBound ==
    /\ stage = 4
    /\ phase = "building"
    /\ bstack # <<>>
    /\ BTop.i \in 1..Len(BTop.deps)
    /\ BTop.depth + 1 <= max_depth

\* a stage4 call is at its entry and none of its three guards rejects it
Admitted4 ==
    /\ stage = 4
    /\ phase = "building"
    /\ bstack # <<>>
    /\ BTop.i = 0
    /\ BTop.depth <= max_depth
    /\ ~Excluded(BTop.current)
    /\ BTop.current \notin BTop.visited_path

\* the loop calls dfs_build_graph for the dependency, key or not
CallsDep ==
    AtDepWithinBound =>
        /\ Len(bstack') = Len(bstack) + 1
        /\ bstack'[Len(bstack')].current = BTop.deps[BTop.i]
        /\ bstack'[Len(bstack')].depth = BTop.depth + 1

\* the admitted call asks the source again and writes the answer
Refetches ==
    Admitted4 =>
        /\ fetches'[BTop.current] = fetches[BTop.current] + 1
        /\ repo'[BTop.current].ok =>
              Get(graph', BTop.current) =
                  filtered_deps(repo'[BTop.current].deps, filter_substring)

\* in the diamond the source is asked for D once per path
DiamondTwice ==
    (/\ stage = 4
     /\ phase = "ready"
     /\ root = A
     /\ max_depth >= 2
     /\ filter_substring = <<>>
     /\ DiamondSource) => fetches[D] = 2

\* C12: stage4 calls dfs_build_graph for every dependency that lies within
\* the depth bound, also when it is a key already, so the guard before the
\* call never stops an expansion the call itself would make; a call that its
\* guards admit asks the source again and overwrites the key's list with the
\* answer; in the diamond with max_depth >= 2 the source is asked for D twice.
C12_Reexpands == [][CallsDep /\ Refetches]_vars /\ []DiamondTwice

C12_Witness ==
    /\ stage = 4
    /\ phase = "ready"
    /\ max_depth = 2
    /\ filter_substring = <<>>
    /\ DiamondSource
    /\ fetches[D] = 2
    /\ fetches[A] = 1

(* ---------------------------- C13 -------------------------------------- *)
\* C13: the returned list holds every key that is on no cycle and reaches
\* none through key-to-key edges, and holds no key twice; so such a key is in
\* the list exactly once, also when a failing key never got to visit it.
C13_AcyclicComplete ==
    phase = "sorted" =>
        /\ NoDup(order)
        /\ \A n \in Keys(graph) : ~ReachesCycle(graph, n) => n \in Range(order)

\* the first key fails at its first dependency and so never visits its
\* second one, which the driver loop picks up later
C13_Witness ==
    /\ phase = "sorted"
    /\ Len(graph) = 3
    /\ LET a == KeySeq(graph)[1]
           ds == Get(graph, a)
       IN  /\ Len(ds) = 2
           /\ ds[1] \in Keys(graph) \ {a}
           /\ ds[2] \in Keys(graph) \ {a, ds[1]}
           /\ a \in Range(Get(graph, ds[1]))
           /\ a \in in_cycle
           /\ ~ReachesCycle(graph, ds[2])
           /\ order = <<ds[2]>>

(* ---------------------------- C14 -------------------------------------- *)
Done == {n \in DOMAIN color : color[n] = BLACK}

\* result is the DONE nodes, each once, and none of them is tainted
DoneIsResult ==
    /\ Range(result) = Done
    /\ NoDup(result)
    /\ Done \cap in_cycle = {}
    /\ phase = "sorted" => order = result

\* within one call the taint set and the DONE set only grow
TaintAndDoneGrow ==
    (phase = "sorting" /\ phase' \in {"sorting", "sorted"}) =>
        /\ in_cycle \subseteq in_cycle'
        /\ \A n \in Done : color'[n] = BLACK

\* C14: at every point of topological_sort result holds exactly the BLACK
\* nodes, no BLACK node is in in_cycle, a tainted node stays tainted and a
\* BLACK node stays BLACK; so the comprehension at the end removes nothing and
\* the returned list is result itself.
C14_DoneNeverTainted == []DoneIsResult /\ [][TaintAndDoneGrow]_vars

\* a sort that tainted some keys and finished others
C14_Witness ==
    /\ phase = "sorted"
    /\ in_cycle # {}
    /\ \E n \in in_cycle : color[n] = WHITE
    /\ Len(result) >= 1
    /\ order = result

(* ---------------------------- C15 -------------------------------------- *)
\* a failure is being handed to the call below: that call fails in turn, and
\* no key is coloured in that step
FailureUnwinds ==
    (phase = "sorting" /\ tstack # <<>> /\ ret = "False") =>
        /\ tstack' = Front(tstack)
        /\ ret' = "False"
        /\ \A n \in Keys(graph) : color'[n] = GRAY => color[n] = GRAY

\* a key is coloured GRAY at most once between two turns of the driver loop
VisitedOnce ==
    phase = "sorting" =>
        \A n \in Keys(graph) :
            (color[n] # GRAY /\ color'[n] = GRAY) => n \notin seen

\* at the return no key is left in progress
NoneInProgress ==
    phase = "sorted" => \A n \in Keys(graph) : color[n] \in {WHITE, BLACK}

\* C15: every call of topological_sort returns; a failure travels down the
\* whole call stack with no further visit, each top-level visit colours a key
\* GRAY at most once, and at the return every key is BLACK or WHITE.
C15_SortTerminates ==
    /\ (phase = "sorting") ~> (phase = "sorted")
    /\ [][FailureUnwinds /\ VisitedOnce]_vars
    /\ []NoneInProgress

\* the first key failed in the first top-level visit, was visited again in the
\* last one (seen holds the keys of the last turn) and reset again
C15_Witness ==
    /\ phase = "sorted"
    /\ Len(graph) >= 2
    /\ KeySeq(graph)[1] \in seen
    /\ KeySeq(graph)[1] \in in_cycle
    /\ color[KeySeq(graph)[1]] = WHITE

====
